---- MODULE Spec2Model ----
(***************************************************************************)
(* simple-crud-go: an HTTP front-end over one MongoDB collection.  Every   *)
(* request is served by mainHandler on its own goroutine; the handler      *)
(* parses the body, then runs one of getItem, createOrUpdateItem,          *)
(* createOrOverwriteItem or deleteItem, each of which makes one or two     *)
(* calls to the collection.  Each collection call is atomic in the store;  *)
(* nothing makes two calls of one handler atomic together.                 *)
(***************************************************************************)
EXTENDS Integers, Sequences, FiniteSets, TLC

(* ------------------------------ bounds --------------------------------- *)

\* Number of documents the collection is asked to insert in one behaviour.
MaxId == 3

\* Goroutines serving requests at the same time.
Workers == {1, 2}

\* Request URIs.  Every collection call filters on the exact path, so the
\* requests for one key are modelled.
Paths == {"/a"}

\* Request URIs that a normalising server would take for the same key: with
\* a trailing slash, and with a query component.
Keys == {"/a", "/a/", "/a?x=1"}

Methods == {"GET", "POST", "PUT", "DELETE", "PATCH"}

\* JSON objects a client sends (field values are kept as strings).
EmptyObj == [k \in {} |-> ""]
BodyA == [a |-> "1", b |-> "1", path |-> "/zz"]
BodyB == [a |-> "2"]
BodyU == ("$set.a" :> "2")
Objects == {BodyA, BodyB, BodyU}

\* Request bodies as they arrive on the wire.
RawBodies ==
    {[kind |-> k, obj |-> EmptyObj] : k \in {"empty", "malformed", "null"}}
        \cup {[kind |-> "object", obj |-> o] : o \in Objects}

(* --------------------------- program constants ------------------------- *)

StatusOK == 200
StatusBadRequest == 400
StatusNotFound == 404
NoCode == -1

(* ------------------------------- state --------------------------------- *)

VARIABLES
    store,      \* the collection: documents in natural (insertion) order
    nextId,     \* number of the next ObjectID the driver generates
    pc,         \* where each worker's handler stands
    method,     \* req.Method of the request a worker serves
    path,       \* req.RequestURI of that request
    body,       \* what readBody returned for it, for the methods that use it
    parseErr,   \* whether readBody returned an error
    data,       \* the map handed on to the collection calls
    resp,       \* the handler's Response value
    panicVal,   \* the value the handler panicked with, "" when it has not
    ov,         \* history: how many requests on its path overlapped this one
    pre,        \* history: how many documents its path had when it arrived
    hist,       \* history: per path, the last writes that ran undisturbed
    fin         \* history: per path, the first of two overlapping PUTs to end

vars == <<store, nextId, pc, method, path, body, parseErr, data, resp, panicVal,
          ov, pre, hist, fin>>

(* ---------------------------- pure helpers ----------------------------- *)

\* newResponse: an empty body and the sentinel code.
newResponse == [body |-> EmptyObj, code |-> NoCode]

\* Variant: the envelope is built but the code is left as newResponse set it.
makeResponseNoCode(err, code) ==
    [body |-> [message |-> err, status |-> code], code |-> NoCode]

\* makeResponse: the {message, status} envelope and its code.
makeResponse(err, code) ==
    [body |-> [message |-> err, status |-> code], code |-> code]

\* A parsed body: the nil map, or a map.
NilMap == [isNil |-> TRUE, map |-> EmptyObj]
MapOf(o) == [isNil |-> FALSE, map |-> o]

\* jsonToMap: JSON null unmarshals into the nil map without error, an object
\* gives its map, anything else is an error.
jsonToMap(raw) ==
    CASE raw.kind = "null"      -> [body |-> NilMap, err |-> FALSE]
      [] raw.kind = "object"    -> [body |-> MapOf(raw.obj), err |-> FALSE]
      [] OTHER                  -> [body |-> NilMap, err |-> TRUE]

\* readBody: an empty body is (nil, nil), a non-empty one is parsed.
readBody(raw) ==
    IF raw.kind # "empty" THEN jsonToMap(raw)
    ELSE [body |-> NilMap, err |-> FALSE]

\* Variant: a path field the client sent is kept.
SetPathKeep(m, p) ==
    [k \in DOMAIN m \cup {"path"} |-> IF k \in DOMAIN m THEN m[k] ELSE p]

\* data["path"] = path on a non-nil map.
SetPath(m, p) ==
    [k \in DOMAIN m \cup {"path"} |-> IF k = "path" THEN p ELSE m[k]]

\* The ObjectID the driver generates for a document inserted without _id.
Oid(n) == "oid" \o ToString(n)

\* A request URI without its query component and trailing slash.
Norm(p) == IF p \in {"/a/", "/a?x=1"} THEN "/a" ELSE p

\* Variant: the filter compares normalised request URIs.
MatchesNorm(d, p) == "path" \in DOMAIN d /\ Norm(d["path"]) = Norm(p)

\* bson.D{{Key: "path", Value: path}}: exact equality on the path field.
Matches(d, p) == "path" \in DOMAIN d /\ d["path"] = p

Matching(s, p) == {i \in 1..Len(s) : Matches(s[i], p)}

\* Index of the first document matching the filter, 0 when there is none.
First(s, p) ==
    IF Matching(s, p) = {} THEN 0
    ELSE CHOOSE i \in Matching(s, p) : \A j \in Matching(s, p) : i <= j

\* The documents stored for a path, in natural order.
DocsFor(s, p) == SelectSeq(s, LAMBDA d : Matches(d, p))

\* getSR: collection.FindOne, nil (FALSE) on mongo.ErrNoDocuments.
getSR(s, p) == First(s, p) # 0

\* Variant: the empty map made for the missing document is returned.
getItemEmpty(s, p) ==
    IF getSR(s, p) THEN [body |-> s[First(s, p)], code |-> StatusOK]
    ELSE [body |-> EmptyObj, code |-> StatusOK]

\* getItem: the decoded first matching document with 200, or the 404
\* envelope.
getItem(s, p) ==
    IF getSR(s, p) THEN [body |-> s[First(s, p)], code |-> StatusOK]
    ELSE makeResponse("No item found", StatusNotFound)

\* collection.InsertOne: the driver adds _id when the document has none; the
\* collection has no unique index on path.
InsertOne(s, doc, n) ==
    Append(s, [k \in DOMAIN doc \cup {"_id"} |->
                    IF k \in DOMAIN doc THEN doc[k] ELSE Oid(n)])

\* Variant: the replacement is merged into the stored document.
ReplaceOneMerge(s, p, doc) ==
    IF First(s, p) = 0 THEN s
    ELSE [s EXCEPT ![First(s, p)] =
            [k \in DOMAIN doc \cup DOMAIN s[First(s, p)] |->
                IF k \in DOMAIN doc THEN doc[k] ELSE s[First(s, p)][k]]]

\* collection.ReplaceOne without upsert: the first matching document is
\* replaced and keeps its _id; nothing happens when none matches.
ReplaceOne(s, p, doc) ==
    IF First(s, p) = 0 THEN s
    ELSE [s EXCEPT ![First(s, p)] =
            [k \in DOMAIN doc \cup {"_id"} |->
                IF k \in DOMAIN doc THEN doc[k] ELSE s[First(s, p)]["_id"]]]

\* collection.DeleteOne: removes the first matching document.
DeleteOne(s, p) ==
    IF First(s, p) = 0 THEN s
    ELSE [i \in 1..(Len(s) - 1) |-> IF i < First(s, p) THEN s[i] ELSE s[i + 1]]

\* dr.DeletedCount
DeletedCount(s, p) == IF First(s, p) = 0 THEN 0 ELSE 1

\* deleteItem's envelope: fmt.Sprintf("Deleted count: %d", dr.DeletedCount).
deleteResponse(n) == makeResponse("Deleted count: " \o ToString(n), StatusOK)

\* Update operators of an update document, written operator.field, and the
\* field each one sets.
SetTarget == ("$set.a" :> "a") @@ ("$set.b" :> "b")
IsOperatorKey(k) == k \in DOMAIN SetTarget

\* collection.UpdateOne(filter, data): the errors the call can return for an
\* update document, "" standing for none.  The driver refuses a document
\* whose first key is not an operator (a Go map is marshalled in no fixed
\* order, so any key can come first); the server refuses one that mixes
\* operators with plain fields; and the call can run into its deadline.
UpdateOneErrors(doc) ==
    (IF \E k \in DOMAIN doc : ~IsOperatorKey(k)
        THEN {"update document must contain key beginning with '$'"} ELSE {})
    \cup
    (IF (\E k \in DOMAIN doc : ~IsOperatorKey(k))
            /\ (\E k \in DOMAIN doc : IsOperatorKey(k))
        THEN {"Unknown modifier: path"} ELSE {})
    \cup
    (IF \A k \in DOMAIN doc : IsOperatorKey(k) THEN {""} ELSE {})
    \cup {"context deadline exceeded"}

\* Variant: the plain fields of the update document are written even when
\* the call returns an error.
UpdateOneMerge(s, p, doc, err) ==
    IF First(s, p) = 0 THEN s
    ELSE [s EXCEPT ![First(s, p)] =
            [k \in DOMAIN s[First(s, p)] \cup
                    {f \in DOMAIN doc : ~IsOperatorKey(f)} |->
                IF k \in DOMAIN doc THEN doc[k] ELSE s[First(s, p)][k]]]

\* The collection after an UpdateOne call that returned err: an update that
\* is refused changes nothing, an accepted one sets the fields of the first
\* matching document.
UpdateOne(s, p, doc, err) ==
    IF err # "" \/ First(s, p) = 0 THEN s
    ELSE [s EXCEPT ![First(s, p)] =
            [f \in DOMAIN s[First(s, p)] \cup {SetTarget[k] : k \in DOMAIN doc} |->
                IF \E k \in DOMAIN doc : SetTarget[k] = f
                THEN doc[CHOOSE k \in DOMAIN doc : SetTarget[k] = f]
                ELSE s[First(s, p)][f]]]

(* ------------------------- history bookkeeping ------------------------- *)

InFlight(w) == pc[w] # "idle"

\* Some other request on path p is being served.
Busy(w, p) == \E v \in Workers \ {w} : InFlight(v) /\ path[v] = p

Min2(n) == IF n > 2 THEN 2 ELSE n

\* Request w arrives for path p: it starts with the requests on p it finds
\* in flight, and every request on p in flight overlaps one more (counted
\* up to 2).
OvOnReceive(w, p) ==
    IF p \notin Paths THEN ov
    ELSE
    [v \in Workers |->
        IF v = w
        THEN Cardinality({u \in Workers \ {w} : InFlight(u) /\ path[u] = p})
        ELSE IF InFlight(v) /\ path[v] = p THEN Min2(ov[v] + 1) ELSE ov[v]]

\* No undisturbed write is on record.
NoWrite == [m |-> "", body |-> NilMap, prev |-> NilMap]

\* The record of the last undisturbed write to p survives the arrival of a
\* GET, PUT or DELETE that finds no other request on p in flight; anything
\* else clears it.  Records are kept for the paths of Paths.
HistOnReceive(w, m, p) ==
    IF p \notin Paths THEN hist
    ELSE [hist EXCEPT ![p] = IF ~Busy(w, p) /\ m \in {"GET", "PUT", "DELETE"}
                             THEN @ ELSE NoWrite]

\* A PUT or DELETE that returns 200 and overlapped no request on its path
\* goes on record, with the body of the PUT on record before it.
HistOnRespond(w) ==
    IF method[w] \in {"PUT", "DELETE"} /\ resp[w].code = StatusOK
            /\ ov[w] = 0 /\ path[w] \in Paths
    THEN [hist EXCEPT ![path[w]] =
            [m    |-> method[w],
             body |-> body[w],
             prev |-> IF @.m = "PUT" THEN @.body ELSE NilMap]]
    ELSE hist

NoFin == [set |-> FALSE, body |-> EmptyObj]

FinOnReceive(p) == IF p \notin Paths THEN fin ELSE [fin EXCEPT ![p] = NoFin]

\* A PUT that returns Ok having overlapped exactly one request on its path,
\* a PUT still being served that has overlapped nothing else, is the first
\* of a pair to end.
FinOnRespond(w) ==
    IF path[w] \notin Paths THEN fin
    ELSE
    [fin EXCEPT ![path[w]] =
        IF /\ method[w] = "PUT" /\ resp[w].code = StatusOK /\ ov[w] = 1
           /\ \E v \in Workers \ {w} :
                /\ InFlight(v) /\ path[v] = path[w] /\ method[v] = "PUT"
                /\ ov[v] = 1 /\ ~body[v].isNil
        THEN [set |-> TRUE, body |-> body[w].map]
        ELSE NoFin]

(* ------------------------------ actions -------------------------------- *)

\* Variant: a method the switch does not name is served like GET.
RouteDefaultGet(m) ==
    CASE m = "POST"   -> "post"
      [] m = "PUT"    -> "put"
      [] m = "DELETE" -> "delete"
      [] OTHER        -> "get"

\* The switch on req.Method: the operation a method is routed to.
Route(m) ==
    CASE m = "GET"    -> "get"
      [] m = "POST"   -> "post"
      [] m = "PUT"    -> "put"
      [] m = "DELETE" -> "delete"
      [] OTHER        -> "unsupported"

\* Variant: the method switch comes before the test of readBody's error.
BranchSwitchFirst(err, op, isNil) ==
    IF op = "unsupported" THEN "unsupported"
    ELSE IF err THEN "badjson"
    ELSE IF op \in {"post", "put"} /\ isNil THEN "nilmap"
    ELSE "run"

\* Variant: readBody's error is not tested.
BranchIgnoreErr(err, op, isNil) ==
    IF op = "unsupported" THEN "unsupported"
    ELSE IF op \in {"post", "put"} /\ isNil THEN "nilmap"
    ELSE "run"

\* The way mainHandler takes: the error of readBody is tested first, then
\* the method switch; a write operation given the nil map panics on
\* data["path"] = path, any other operation runs.
Branch(err, op, isNil) ==
    IF err THEN "badjson"
    ELSE IF op = "unsupported" THEN "unsupported"
    ELSE IF op \in {"post", "put"} /\ isNil THEN "nilmap"
    ELSE "run"

\* mainHandler up to the first collection call: newResponse, readBody, the
\* method switch, and data["path"] = path of the two write operations (a
\* write to the nil map panics).  A request takes the lowest free worker.
Receive(w, m, p, raw) ==
    /\ ~InFlight(w)
    /\ \A v \in Workers : v < w => InFlight(v)
    /\ method' = [method EXCEPT ![w] = m]
    /\ path' = [path EXCEPT ![w] = p]
    /\ parseErr' = [parseErr EXCEPT ![w] = readBody(raw).err]
    /\ ov' = OvOnReceive(w, p)
    /\ pre' = [pre EXCEPT ![w] =
                    IF p \in Paths THEN Len(DocsFor(store, p)) ELSE 0]
    /\ hist' = HistOnReceive(w, m, p)
    /\ fin' = FinOnReceive(p)
    /\ LET rb == readBody(raw)
           op == Route(m)
           writes == op \in {"post", "put"}
           br == Branch(rb.err, op, rb.body.isNil)
       IN
        /\ body' = [body EXCEPT ![w] = IF writes THEN rb.body ELSE NilMap]
        /\ IF br = "badjson"
           THEN /\ resp' = [resp EXCEPT ![w] =
                      makeResponse("Error reading JSON body", StatusBadRequest)]
                /\ data' = [data EXCEPT ![w] = NilMap]
                /\ panicVal' = [panicVal EXCEPT ![w] = ""]
                /\ pc' = [pc EXCEPT ![w] = "respond"]
           ELSE IF br = "unsupported"
           THEN /\ resp' = [resp EXCEPT ![w] =
                      makeResponse("Unsupported method", StatusBadRequest)]
                /\ data' = [data EXCEPT ![w] = NilMap]
                /\ panicVal' = [panicVal EXCEPT ![w] = ""]
                /\ pc' = [pc EXCEPT ![w] = "respond"]
           ELSE IF br = "nilmap"
           THEN /\ resp' = [resp EXCEPT ![w] = newResponse]
                /\ data' = [data EXCEPT ![w] = NilMap]
                /\ panicVal' = [panicVal EXCEPT ![w] =
                                    "assignment to entry in nil map"]
                /\ pc' = [pc EXCEPT ![w] = "panic"]
           ELSE /\ resp' = [resp EXCEPT ![w] = newResponse]
                /\ data' = [data EXCEPT ![w] =
                        IF writes THEN MapOf(SetPath(rb.body.map, p))
                                  ELSE NilMap]
                /\ panicVal' = [panicVal EXCEPT ![w] = ""]
                /\ pc' = [pc EXCEPT ![w] =
                        CASE op = "get"    -> "get"
                          [] op = "post"   -> "post_lookup"
                          [] op = "put"    -> "put_lookup"
                          [] OTHER         -> "delete"]
    /\ UNCHANGED <<store, nextId>>

\* getItem: one FindOne, then the document or the 404 envelope.
GetItem(w) ==
    /\ pc[w] = "get"
    /\ resp' = [resp EXCEPT ![w] = getItem(store, path[w])]
    /\ pc' = [pc EXCEPT ![w] = "respond"]
    /\ UNCHANGED <<store, nextId, method, path, body, parseErr, data, panicVal,
                   ov, pre, hist, fin>>

\* createOrOverwriteItem / createOrUpdateItem: getSR(path) == nil decides
\* between the insert and the replace (or update) branch.
Lookup(w) ==
    /\ pc[w] \in {"put_lookup", "post_lookup"}
    /\ pc' = [pc EXCEPT ![w] =
                CASE pc[w] = "put_lookup" /\ ~getSR(store, path[w]) -> "put_insert"
                  [] pc[w] = "put_lookup" /\ getSR(store, path[w]) -> "put_replace"
                  [] pc[w] = "post_lookup" /\ ~getSR(store, path[w]) -> "post_insert"
                  [] OTHER -> "post_update"]
    /\ UNCHANGED <<store, nextId, method, path, body, parseErr, data, resp, panicVal,
                   ov, pre, hist, fin>>

\* The insert branch of either write operation, then the Ok envelope.
Insert(w) ==
    /\ pc[w] \in {"put_insert", "post_insert"}
    /\ nextId <= MaxId
    /\ store' = InsertOne(store, data[w].map, nextId)
    /\ nextId' = nextId + 1
    /\ resp' = [resp EXCEPT ![w] = makeResponse("Ok", StatusOK)]
    /\ pc' = [pc EXCEPT ![w] = "respond"]
    /\ UNCHANGED <<method, path, body, parseErr, data, panicVal, ov, pre, hist, fin>>

\* The replace branch of createOrOverwriteItem, then the Ok envelope.
Replace(w) ==
    /\ pc[w] = "put_replace"
    /\ store' = ReplaceOne(store, path[w], data[w].map)
    /\ resp' = [resp EXCEPT ![w] = makeResponse("Ok", StatusOK)]
    /\ pc' = [pc EXCEPT ![w] = "respond"]
    /\ UNCHANGED <<nextId, method, path, body, parseErr, data, panicVal, ov, pre,
                   hist, fin>>

\* The update branch of createOrUpdateItem: an error becomes a 400 envelope
\* with its text, success the Ok envelope.
Update(w) ==
    /\ pc[w] = "post_update"
    /\ \E err \in UpdateOneErrors(data[w].map) :
        /\ store' = UpdateOne(store, path[w], data[w].map, err)
        /\ resp' = [resp EXCEPT ![w] =
                        IF err # "" THEN makeResponse(err, StatusBadRequest)
                                    ELSE makeResponse("Ok", StatusOK)]
    /\ pc' = [pc EXCEPT ![w] = "respond"]
    /\ UNCHANGED <<nextId, method, path, body, parseErr, data, panicVal, ov, pre,
                   hist, fin>>

\* deleteItem: one DeleteOne, then the envelope with the count.
DeleteItem(w) ==
    /\ pc[w] = "delete"
    /\ store' = DeleteOne(store, path[w])
    /\ resp' = [resp EXCEPT ![w] = deleteResponse(DeletedCount(store, path[w]))]
    /\ pc' = [pc EXCEPT ![w] = "respond"]
    /\ UNCHANGED <<nextId, method, path, body, parseErr, data, panicVal, ov, pre,
                   hist, fin>>

\* Variant: the error is logged with log.Fatal, which ends the process and
\* with it every handler.
StoreFailFatal(w) ==
    /\ pc[w] \in {"get", "put_lookup", "post_lookup", "put_insert",
                  "post_insert", "put_replace", "delete"}
    /\ panicVal' = [panicVal EXCEPT ![w] = "store error"]
    /\ pc' = [v \in Workers |-> "exit"]
    /\ UNCHANGED <<store, nextId, method, path, body, parseErr, data, resp, ov, pre,
                   hist, fin>>

\* A FindOne, InsertOne, ReplaceOne or DeleteOne call returns an error other
\* than ErrNoDocuments: log.Panic ends the handler, nothing is written.
StoreFail(w) ==
    /\ pc[w] \in {"get", "put_lookup", "post_lookup", "put_insert",
                  "post_insert", "put_replace", "delete"}
    /\ panicVal' = [panicVal EXCEPT ![w] = "store error"]
    /\ pc' = [pc EXCEPT ![w] = "panic"]
    /\ UNCHANGED <<store, nextId, method, path, body, parseErr, data, resp, ov, pre,
                   hist, fin>>

\* The worker is free for the next request.
Release(w) ==
    /\ pc' = [pc EXCEPT ![w] = "idle"]
    /\ method' = [method EXCEPT ![w] = "GET"]
    /\ path' = [path EXCEPT ![w] = "/a"]
    /\ body' = [body EXCEPT ![w] = NilMap]
    /\ parseErr' = [parseErr EXCEPT ![w] = FALSE]
    /\ data' = [data EXCEPT ![w] = NilMap]
    /\ resp' = [resp EXCEPT ![w] = newResponse]
    /\ panicVal' = [panicVal EXCEPT ![w] = ""]
    /\ ov' = [ov EXCEPT ![w] = 0]
    /\ pre' = [pre EXCEPT ![w] = 0]

\* The end of mainHandler: the header with response.code and the body are
\* written, and the request is over.
Respond(w) ==
    /\ pc[w] = "respond"
    /\ Release(w)
    /\ hist' = HistOnRespond(w)
    /\ fin' = FinOnRespond(w)
    /\ UNCHANGED <<store, nextId>>

\* A panic unwinds mainHandler; the server that called it recovers, drops
\* the connection and goes on serving.
Recover(w) ==
    /\ pc[w] = "panic"
    /\ Release(w)
    /\ UNCHANGED <<store, nextId, hist, fin>>

Init ==
    /\ store = <<>>
    /\ nextId = 1
    /\ pc = [w \in Workers |-> "idle"]
    /\ method = [w \in Workers |-> "GET"]
    /\ path = [w \in Workers |-> "/a"]
    /\ body = [w \in Workers |-> NilMap]
    /\ parseErr = [w \in Workers |-> FALSE]
    /\ data = [w \in Workers |-> NilMap]
    /\ resp = [w \in Workers |-> newResponse]
    /\ panicVal = [w \in Workers |-> ""]
    /\ ov = [w \in Workers |-> 0]
    /\ pre = [w \in Workers |-> 0]
    /\ hist = [p \in Paths |-> NoWrite]
    /\ fin = [p \in Paths |-> NoFin]

Next ==
    \/ \E w \in Workers, m \in Methods, p \in Paths, raw \in RawBodies :
            Receive(w, m, p, raw)
    \/ \E w \in Workers : GetItem(w)
    \/ \E w \in Workers : Lookup(w)
    \/ \E w \in Workers : Insert(w)
    \/ \E w \in Workers : Replace(w)
    \/ \E w \in Workers : Update(w)
    \/ \E w \in Workers : DeleteItem(w)
    \/ \E w \in Workers : StoreFail(w)
    \/ \E w \in Workers : Respond(w)
    \/ \E w \in Workers : Recover(w)

Spec == Init /\ [][Next]_vars

\* The requests that write: POST, PUT and DELETE, with a JSON object whose
\* own path field names yet another key.
Writers == {"POST", "PUT", "DELETE"}
RawKeys == {[kind |-> "object", obj |-> BodyA]}

\* The same handlers serving writers on the request URIs of Keys, the store
\* answering every call.
NextKeys ==
    \/ \E w \in Workers, m \in Writers, p \in Keys, raw \in RawKeys :
            Receive(w, m, p, raw)
    \/ \E w \in Workers : Lookup(w)
    \/ \E w \in Workers : Insert(w)
    \/ \E w \in Workers : Replace(w)
    \/ \E w \in Workers : Update(w)
    \/ \E w \in Workers : DeleteItem(w)
    \/ \E w \in Workers : Respond(w)

SpecKeys == Init /\ [][NextKeys]_vars

(* ------------------------------ properties ----------------------------- *)

\* A stored document without the _id the store gave it.
Content(d) == [k \in DOMAIN d \ {"_id"} |-> d[k]]

Ok == makeResponse("Ok", StatusOK)

\* A GET that parsed its body, holds its answer, and follows a PUT that ran
\* with no other request on the path in flight.
GetAfterPut(w) ==
    /\ pc[w] = "respond" /\ method[w] = "GET" /\ ~parseErr[w]
    /\ hist[path[w]].m = "PUT"

\* C1 as stated: PUT(p, b) that ran undisturbed, then GET(p), returns 200
\* and a document whose fields are exactly those of b with path set to p.
C1_RoundTripExact ==
    \A w \in Workers :
        GetAfterPut(w) =>
            /\ resp[w].code = StatusOK
            /\ resp[w].body = SetPath(hist[path[w]].body.map, path[w])

\* C1 amended: PUT(p, b) that ran undisturbed, then GET(p), returns 200 and
\* a document whose fields are those of b with path set to p, plus the _id
\* field the store gave the document.
C1_RoundTrip ==
    \A w \in Workers :
        GetAfterPut(w) =>
            /\ resp[w].code = StatusOK
            /\ DOMAIN resp[w].body =
                    DOMAIN hist[path[w]].body.map \cup {"path", "_id"}
            /\ resp[w].body["path"] = path[w]
            /\ \A k \in DOMAIN hist[path[w]].body.map \ {"path"} :
                    resp[w].body[k] = hist[path[w]].body.map[k]

\* A GET answers after an undisturbed PUT whose body carried its own path
\* field.
C1_Witness ==
    \E w \in Workers :
        /\ GetAfterPut(w)
        /\ hist[path[w]].body.map = BodyA
        /\ resp[w].code = StatusOK

\* C2: in every reachable state at most one stored document exists for each
\* path.
C2_OnePerPath ==
    \A p \in Paths : Len(DocsFor(store, p)) <= 1

\* C3: two PUTs on one path that overlapped each other and nothing else
\* have both returned Ok: the path has exactly one document, and it is one
\* of the two bodies with path set.
C3_OneOfTwo ==
    \A w \in Workers :
        (/\ pc[w] = "respond" /\ method[w] = "PUT" /\ resp[w] = Ok
         /\ ov[w] = 1 /\ fin[path[w]].set)
        => /\ Len(DocsFor(store, path[w])) = 1
           /\ Content(DocsFor(store, path[w])[1]) \in
                {SetPath(body[w].map, path[w]),
                 SetPath(fin[path[w]].body, path[w])}

\* C4: a PUT whose body the dispatcher accepted never panics unless a store
\* call failed, and answers with the Ok envelope and 200.
C4_PutAlwaysOk ==
    \A w \in Workers :
        (method[w] = "PUT" /\ ~parseErr[w]) =>
            /\ pc[w] = "panic" => panicVal[w] = "store error"
            /\ pc[w] = "respond" => resp[w] = Ok

\* C5: the store call after which a PUT returns Ok leaves exactly one
\* document for the path, with the content of the body and path set,
\* whatever other requests did in between.
C5_PutLeavesOne ==
    [][\A w \in Workers :
        (/\ method[w] = "PUT"
         /\ pc[w] \in {"put_insert", "put_replace"}
         /\ pc'[w] = "respond")
        => /\ Len(DocsFor(store', path[w])) = 1
           /\ Content(DocsFor(store', path[w])[1]) =
                    SetPath(body[w].map, path[w])]_vars

\* C6: a DELETE that ran with no other request in flight answers 200 with
\* "Deleted count: 1" if the path had a document and "Deleted count: 0" if
\* not, and a GET that follows it answers 404.
C6_DeleteThenGet ==
    /\ \A w \in Workers :
        (/\ pc[w] = "respond" /\ method[w] = "DELETE" /\ ~parseErr[w]
         /\ ov[w] = 0)
        => resp[w] = deleteResponse(IF pre[w] > 0 THEN 1 ELSE 0)
    /\ \A w \in Workers :
        (/\ pc[w] = "respond" /\ method[w] = "GET" /\ ~parseErr[w]
         /\ hist[path[w]].m = "DELETE")
        => resp[w].code = StatusNotFound

\* C7: when the update call of a POST on an existing path returns an error,
\* the answer is the 400 envelope with that error's text and the collection
\* is left as it was.
C7_RejectedUpdate ==
    [][\A w \in Workers :
        (/\ pc[w] = "post_update" /\ pc'[w] = "respond"
         /\ resp'[w] # Ok)
        => /\ resp'[w].code = StatusBadRequest
           /\ resp'[w].body.status = StatusBadRequest
           /\ resp'[w].body.message \in UpdateOneErrors(data[w].map) \ {""}
           /\ store' = store]_vars

\* A POST that found a document for its path holds a 400 answer.
C7_Witness ==
    \E w \in Workers :
        /\ pc[w] = "respond" /\ method[w] = "POST" /\ ~parseErr[w]
        /\ pre[w] = 1 /\ ov[w] = 0
        /\ resp[w].code = StatusBadRequest
        /\ DocsFor(store, path[w]) # <<>>

Supported == {"GET", "POST", "PUT", "DELETE"}

C9_FullReplaceIdempotent ==
    /\ [](\A w \in Workers :
            (GetAfterPut(w) /\ ~hist[path[w]].prev.isNil) =>
                /\ resp[w].code = StatusOK
                /\ resp[w].body["path"] = path[w]
                /\ \A k \in DOMAIN hist[path[w]].body.map \ {"path"} :
                        /\ k \in DOMAIN resp[w].body
                        /\ resp[w].body[k] = hist[path[w]].body.map[k]
                /\ \A k \in DOMAIN hist[path[w]].prev.map :
                        k \in DOMAIN resp[w].body =>
                            k \in DOMAIN hist[path[w]].body.map \cup {"path"})
    /\ [][\A w \in Workers :
            (/\ method[w] = "PUT" /\ ov[w] = 0
             /\ pc[w] \in {"put_insert", "put_replace"}
             /\ pc'[w] = "respond"
             /\ hist[path[w]].m = "PUT"
             /\ hist[path[w]].body = body[w])
            => /\ store' = store
               /\ resp'[w] = Ok]_vars

\* A GET answers after PUT(p, BodyA) then PUT(p, BodyB), both undisturbed.
C9_Witness ==
    \E w \in Workers :
        /\ GetAfterPut(w)
        /\ hist[path[w]].body.map = BodyB
        /\ ~hist[path[w]].prev.isNil
        /\ hist[path[w]].prev.map = BodyA
        /\ resp[w].code = StatusOK

\* C10: a POST or a PUT with a body the dispatcher accepted, on a path with
\* no document and with no other request on the path in flight, does not
\* panic unless a store call failed, answers Ok, and leaves one document:
\* the body with path set.  Nothing in it depends on which of the two
\* methods was used.
C10_PostLikePut ==
    \A w \in Workers :
        (/\ method[w] \in {"POST", "PUT"} /\ ~parseErr[w]
         /\ ov[w] = 0 /\ pre[w] = 0)
        => /\ pc[w] = "panic" => panicVal[w] = "store error"
           /\ pc[w] = "respond" =>
                /\ resp[w] = Ok
                /\ Len(DocsFor(store, path[w])) = 1
                /\ Content(DocsFor(store, path[w])[1]) =
                        SetPath(body[w].map, path[w])


BadJson ==
    [body |-> [message |-> "Error reading JSON body", status |-> 400],
     code |-> 400]

NotFound ==
    [body |-> [message |-> "No item found", status |-> 404], code |-> 404]

\* C12: a GET whose lookup runs while the collection holds no document for
\* its path is answered 404 with the envelope message "No item found".
C12_GetAbsent ==
    [][\A w \in Workers :
        (/\ pc[w] = "get" /\ pc'[w] = "respond"
         /\ DocsFor(store, path[w]) = <<>>)
        => resp'[w] = NotFound]_vars

\* A GET holds the 404 envelope after an undisturbed DELETE removed the
\* document of its path.
C12_Witness ==
    \E w \in Workers :
        /\ pc[w] = "respond" /\ method[w] = "GET" /\ ~parseErr[w]
        /\ hist[path[w]].m = "DELETE" /\ nextId > 1
        /\ resp[w] = NotFound

\* C13: when a POST has found a document for its path, the update document
\* it hands to the update call is exactly the body the client sent.
C13_UpdateIsBody ==
    \A w \in Workers :
        pc[w] = "post_update" => data[w].map = body[w].map

\* The handler of w has panicked on the error of a collection call.
Failed(w) == pc[w] = "panic" /\ panicVal[w] = "store error"

NoBody == [kind |-> "empty", obj |-> EmptyObj]

\* C14: the failure of a lookup, insert, replace or delete call aborts the
\* request that made it and no other: the step leaves the collection and
\* every other handler as they were, the aborted handler makes no further
\* collection call and its worker becomes free, and a free worker still
\* takes a request of any method.
C14_FailureIsLocal ==
    /\ [][\A w \in Workers :
            (panicVal'[w] = "store error" /\ panicVal[w] # "store error") =>
                /\ Failed(w)'
                /\ store' = store
                /\ resp'[w] = newResponse
                /\ \A v \in Workers \ {w} :
                        /\ pc'[v] = pc[v]
                        /\ resp'[v] = resp[v]
                        /\ data'[v] = data[v]]_vars
    /\ [][\A w \in Workers :
            (Failed(w) /\ ~Failed(w)') =>
                /\ pc'[w] = "idle"
                /\ store' = store]_vars
    /\ [](\A w \in Workers : Failed(w) => ENABLED Recover(w))
    /\ [](\A w \in Workers :
            (~InFlight(w) /\ \A v \in Workers : v < w => InFlight(v)) =>
                \A m \in Methods, p \in Paths :
                    ENABLED Receive(w, m, p, NoBody))

\* One request has been aborted by a store failure while the collection
\* holds a document, and another request holds its 200 answer.
C14_Witness ==
    \E w, v \in Workers :
        /\ Failed(w) /\ method[w] = "DELETE"
        /\ pc[v] = "respond" /\ resp[v].code = StatusOK
        /\ store # <<>>

WrittenCodes == {StatusOK, StatusBadRequest, StatusNotFound}

\* C15: a handler that reaches rw.WriteHeader holds a code among 200, 400
\* and 404, never the -1 that newResponse set, whatever the method, the body
\* and the collection.
C15_CodeWritten ==
    \A w \in Workers :
        pc[w] = "respond" =>
            /\ resp[w].code \in WrittenCodes
            /\ resp[w].code # NoCode
            /\ resp[w] # newResponse

\* Two handlers are about to write their headers, one 404 and one 400.
C15_Witness ==
    \E w, v \in Workers :
        /\ pc[w] = "respond" /\ resp[w].code = StatusNotFound
        /\ pc[v] = "respond" /\ resp[v].code = StatusBadRequest

\* The request neither reads nor writes through a write operation: a GET, a
\* request whose body did not parse, or one with an unsupported method.
ReadOnly(m, e) == e \/ m = "GET" \/ m \notin Supported

\* C16: every step of a GET, of a request rejected for its body and of a
\* request with an unsupported method leaves the collection, and the counter
\* of inserted documents, exactly as they were.
C16_ReadOnlyFrame ==
    [][\A w \in Workers :
        (/\ pc'[w] # pc[w]
         /\ IF pc[w] = "idle"
               THEN ReadOnly(method'[w], parseErr'[w])
               ELSE ReadOnly(method[w], parseErr[w]))
        => /\ store' = store
           /\ nextId' = nextId]_vars

\* A GET has found a document and a PUT was rejected for its body; both are
\* about to answer and the collection still holds the document.
C16_Witness ==
    \E w, v \in Workers :
        /\ pc[w] = "respond" /\ method[w] = "GET" /\ resp[w].code = StatusOK
        /\ pc[v] = "respond" /\ method[v] = "PUT" /\ parseErr[v]
        /\ store # <<>>

\* The documents of the collection whose path field is not p, in order.
Elsewhere(s, p) == SelectSeq(s, LAMBDA d : d["path"] # p)

\* C17: every step of a POST, PUT or DELETE on the request URI p leaves the
\* documents whose path field differs from p as they were, among them the
\* documents keyed by p with a trailing slash or a query component and by
\* the path field of the request's own body, whatever other request is in
\* flight.
C17_ExactKeyFrame ==
    [][\A w \in Workers :
        pc'[w] # pc[w] =>
            LET p == IF pc[w] = "idle" THEN path'[w] ELSE path[w]
            IN  Elsewhere(store', p) = Elsewhere(store, p)]_vars

\* A DELETE on "/a" has removed its document while documents keyed "/a/"
\* and "/a?x=1" are stored and a PUT on "/a/" is about to replace.
C17_Witness ==
    \E w, v \in Workers :
        /\ pc[w] = "respond" /\ method[w] = "DELETE" /\ path[w] = "/a"
        /\ resp[w] = makeResponse("Deleted count: 1", StatusOK)
        /\ pc[v] = "put_replace" /\ path[v] = "/a/"
        /\ DocsFor(store, "/a") = <<>>
        /\ DocsFor(store, "/a/") # <<>>
        /\ DocsFor(store, "/a?x=1") # <<>>

====
